---- MODULE Spec2Model ----
(***************************************************************************)
(* LeagueProb: standings, tiebreaker resolver and possibility engine.      *)
(*                                                                         *)
(* The specifications share the operators of this module:                  *)
(*   LeagueSpec    one League built from a match list, then make_tiebreaker*)
(*                 run call by call (_remove_team_from_standings and       *)
(*                 _set_standing_for_team are single steps);               *)
(*   TeamSpec      one call of Team.record or Team.head_to_head_wins on a  *)
(*                 League whose list may hold unplayed matches;            *)
(*   StandingSpec  _set_standing_for_team called with any team and rank;   *)
(*   Spec          PossibilityHandler.multiprocess_possibilities: the pool *)
(*                 workers, the manager queue and the aggregating loop;    *)
(*   FailSpec      Spec with one get_possibilities call that raises;       *)
(*   FairSpec      Spec with the turn of the aggregating loop split into   *)
(*                 its queue.empty() test and its queue.get(), every       *)
(*                 process being scheduled again and again.                *)
(*                                                                         *)
(* Python dicts are insertion ordered: a dict is modelled as the sequence  *)
(* of its items.  An absent result (None or the scraper's empty tuple) is  *)
(* the empty tuple.                                                        *)
(***************************************************************************)
EXTENDS Integers, Sequences, FiniteSets, TLC

VARIABLES
    matches,        \* the match list given to get_league_from_matches
    teams,          \* League.teams
    standings,      \* League.standings
    h2h_copy,       \* standings_copy of _solve_ties_through_head_to_heads
    second_copy,    \* standings_copy of _solve_ties_through_wins_in_second_half
    todo,           \* the calls the running pass has still to make
    pc,             \* "built", "h2h", "second", "done"
    step,           \* "remove" (line 171/215) or "set" (line 172/216) comes next
    calls           \* number of make_tiebreaker calls started

VARIABLES
    finished_matches,    \* PossibilityHandler.finished_matches
    upcomming_matches,   \* PossibilityHandler.upcomming_matches
    possibilities,       \* the outcome vectors no worker has taken yet
    worker,              \* per pool worker: the vectors of its chunk still to run
    queue,               \* the manager queue
    cumulated_outcomes,  \* PossibilityHandler.cumulated_outcomes
    agg,                 \* the main process: "sleep", "loop", "get", "returned", "joined"
    process,             \* per pool worker: the Match lists its process holds
    ran,                 \* per outcome vector: the get_possibilities calls that returned
    failed               \* the outcome vectors whose get_possibilities call raised

VARIABLES
    got                  \* the last call made on the League from outside, with
                         \* what it was given and what it returned or found

leagueVars == <<matches, teams, standings, h2h_copy, second_copy, todo, pc, step, calls>>
engineVars == <<finished_matches, upcomming_matches, possibilities, worker, queue,
                cumulated_outcomes, agg, process, ran, failed>>
vars == <<leagueVars, engineVars, got>>

\* ------------------------------------------------------------------ bounds
\* most matches of the season that have been played (League inputs)
MaxMatches == 5
\* make_tiebreaker is called at most this many times on one League
MaxCalls == 2
\* most fixtures of the handler's season that have a result
MaxFinished == 2
\* most fixtures of the handler's season that have none
MaxUnplayed == 3
\* most processes of the Pool (Pool() starts os.cpu_count() of them)
NumWorkers == 2
\* most matches of the list a League is built from before calls are made on it
MaxListed == 2
\* most _set_standing_for_team calls made on one League from outside
MaxSets == 1
\* weeks strictly above SplitWeek are the second half of the split
SplitWeek == 4

TeamNames == <<"A", "B", "C", "D">>
NumTeams == Len(TeamNames)
Names == {TeamNames[i] : i \in 1..NumTeams}
None == "None"

\* ---------------------------------------------------------------- schedule
\* The fixtures of a double round robin, in week order: every pair meets once
\* in the first half (the last week of it, SplitWeek) and once, home and away
\* swapped, in the second half (SplitWeek + 1).
RECURSIVE PairsFrom(_, _)
PairsFrom(i, j) ==
    IF i >= NumTeams THEN <<>>
    ELSE IF j > NumTeams THEN PairsFrom(i + 1, i + 2)
    ELSE <<<<i, j>>>> \o PairsFrom(i, j + 1)

Pairs == PairsFrom(1, 2)

Schedule ==
    [k \in 1..(2 * Len(Pairs)) |->
        IF k <= Len(Pairs)
        THEN [teams |-> <<TeamNames[Pairs[k][1]], TeamNames[Pairs[k][2]]>>,
              week |-> SplitWeek]
        ELSE [teams |-> <<TeamNames[Pairs[k - Len(Pairs)][2]],
                          TeamNames[Pairs[k - Len(Pairs)][1]]>>,
              week |-> SplitWeek + 1]]

HomeWin == <<1, 0>>
AwayWin == <<0, 1>>
NoResult == <<>>

Match(fixture, result) ==
    [teams |-> fixture.teams, week |-> fixture.week, result |-> result]

\* The matches of the fixtures in S, in schedule order, with the results res.
RECURSIVE MatchList(_, _, _)
MatchList(k, S, res) ==
    IF k > Len(Schedule) THEN <<>>
    ELSE IF k \in S THEN <<Match(Schedule[k], res[k])>> \o MatchList(k + 1, S, res)
    ELSE MatchList(k + 1, S, res)

\* ------------------------------------------------------------------- Match
Winner(m) ==
    IF m.result = NoResult THEN None
    ELSE IF m.result[1] > m.result[2] THEN m.teams[1]
    ELSE m.teams[2]

Loser(m) ==
    IF m.result = NoResult THEN None
    ELSE IF m.result[1] > m.result[2] THEN m.teams[2]
    ELSE m.teams[1]

InMatch(name, m) == name = m.teams[1] \/ name = m.teams[2]

\* -------------------------------------------------------------------- Team
Wins(team) ==
    Cardinality({i \in 1..Len(team.matches) : Winner(team.matches[i]) = team.name})

\* mutant: `match.winner and` is missing, a match with no result is a loss
LossesUnguarded(team) ==
    Cardinality({i \in 1..Len(team.matches) : Winner(team.matches[i]) # team.name})

Losses(team) ==
    Cardinality({i \in 1..Len(team.matches) :
                    /\ Winner(team.matches[i]) # None
                    /\ Winner(team.matches[i]) # team.name})

Record(team) == <<Wins(team), Losses(team)>>

\* mutant: the matchups are not filtered by opponent
MatchupWinsAnyOpponent(team, opponent) ==
    Cardinality({i \in 1..Len(team.matches) :
                    /\ InMatch(team.name, team.matches[i])
                    /\ Winner(team.matches[i]) = team.name})

\* wins of team in its matchups with one opponent
MatchupWins(team, opponent) ==
    Cardinality({i \in 1..Len(team.matches) :
                    /\ InMatch(team.name, team.matches[i])
                    /\ InMatch(opponent, team.matches[i])
                    /\ Winner(team.matches[i]) = team.name})

\* other_teams is the list of the opponents' names
RECURSIVE HeadToHeadWins(_, _)
HeadToHeadWins(team, other_teams) ==
    IF other_teams = <<>> THEN 0
    ELSE MatchupWins(team, Head(other_teams)) + HeadToHeadWins(team, Tail(other_teams))

WinsInSecondHalf(team) ==
    Cardinality({i \in 1..Len(team.matches) :
                    /\ team.matches[i].week > SplitWeek
                    /\ Winner(team.matches[i]) # None
                    /\ Winner(team.matches[i]) = team.name})

\* ------------------------------------------------- get_league_from_matches
\* position of the team of this name in the dict name -> Team, 0 when absent
TeamIndex(league_teams, name) ==
    IF \E i \in 1..Len(league_teams) : league_teams[i].name = name
    THEN CHOOSE i \in 1..Len(league_teams) : league_teams[i].name = name
    ELSE 0

AddMatchToTeam(league_teams, name, m) ==
    LET i == TeamIndex(league_teams, name)
    IN  IF i = 0
        THEN Append(league_teams, [name |-> name, matches |-> <<m>>])
        ELSE [league_teams EXCEPT ![i].matches = Append(@, m)]

RECURSIVE LeagueTeams(_, _)
LeagueTeams(ms, league_teams) ==
    IF ms = <<>> THEN league_teams
    ELSE LET m == Head(ms)
         IN  LeagueTeams(Tail(ms),
                 AddMatchToTeam(AddMatchToTeam(league_teams, m.teams[1], m),
                                m.teams[2], m))

GetLeagueFromMatches(ms) == LeagueTeams(ms, <<>>)

TeamOf(league_teams, name) == league_teams[TeamIndex(league_teams, name)]

TeamNamesOf(league_teams) == {league_teams[i].name : i \in 1..Len(league_teams)}

\* ------------------------------------------------------------------ League
\* sort key of a table item: (wins, -losses)
KeyLess(r1, r2) ==
    \/ r1[1] < r2[1]
    \/ r1[1] = r2[1] /\ (0 - r1[2]) < (0 - r2[2])

\* mutant: the sort is not stable, an item goes before the items of its key
RECURSIVE InsertByRecordUnstable(_, _)
InsertByRecordUnstable(sorted, item) ==
    IF sorted = <<>> THEN <<item>>
    ELSE IF ~KeyLess(item.record, Head(sorted).record)
         THEN <<item>> \o sorted
         ELSE <<Head(sorted)>> \o InsertByRecordUnstable(Tail(sorted), item)

\* sorted(..., reverse=True) is stable: an item goes behind every item whose
\* key is not smaller than its own
RECURSIVE InsertByRecord(_, _)
InsertByRecord(sorted, item) ==
    IF sorted = <<>> THEN <<item>>
    ELSE IF KeyLess(Head(sorted).record, item.record)
         THEN <<item>> \o sorted
         ELSE <<Head(sorted)>> \o InsertByRecord(Tail(sorted), item)

RECURSIVE SortTable(_, _)
SortTable(items, sorted) ==
    IF items = <<>> THEN sorted
    ELSE SortTable(Tail(items), InsertByRecord(sorted, Head(items)))

\* League.table: the items (name, record) of the ordered dict
Table(league_teams) ==
    SortTable([i \in 1..Len(league_teams) |->
                  [name |-> league_teams[i].name, record |-> Record(league_teams[i])]],
              <<>>)

\* teams_by_records: dict record -> names, keys in order of first appearance;
\* league_table is a sequence of items [name, record]
KeyIndex(d, key) ==
    IF \E i \in 1..Len(d) : d[i].key = key
    THEN CHOOSE i \in 1..Len(d) : d[i].key = key
    ELSE 0

RECURSIVE GroupByRecord(_, _)
GroupByRecord(league_table, teams_by_record) ==
    IF league_table = <<>> THEN teams_by_record
    ELSE LET item == Head(league_table)
             i == KeyIndex(teams_by_record, item.record)
         IN  GroupByRecord(Tail(league_table),
                 IF i = 0
                 THEN Append(teams_by_record, [key |-> item.record, teams |-> <<item.name>>])
                 ELSE [teams_by_record EXCEPT ![i].teams = Append(@, item.name)])

TeamsByRecords(league_table) == GroupByRecord(league_table, <<>>)

\* standings: dict rank -> names, as the sequence of its items [rank, teams]
RankIndex(stand, rank) ==
    IF \E i \in 1..Len(stand) : stand[i].rank = rank
    THEN CHOOSE i \in 1..Len(stand) : stand[i].rank = rank
    ELSE 0

\* mutant: next_rank goes up once a bucket, not once a team (ranks 1,1,2)
RECURSIVE StandingsFromDense(_, _, _)
StandingsFromDense(groups, stand, next_rank) ==
    IF groups = <<>> THEN stand
    ELSE StandingsFromDense(Tail(groups),
                            Append(stand, [rank |-> next_rank, teams |-> Head(groups).teams]),
                            next_rank + 1)

RECURSIVE StandingsFrom(_, _, _)
StandingsFrom(groups, stand, next_rank) ==
    IF groups = <<>> THEN stand
    ELSE StandingsFrom(Tail(groups),
                       Append(stand, [rank |-> next_rank, teams |-> Head(groups).teams]),
                       next_rank + Len(Head(groups).teams))

MakeStandings(league_teams) ==
    StandingsFrom(TeamsByRecords(Table(league_teams)), <<>>, 1)

Contains(names, name) == \E i \in 1..Len(names) : names[i] = name

\* list.remove: the first occurrence goes
RemoveFirst(names, name) ==
    LET i == CHOOSE k \in 1..Len(names) :
                 names[k] = name /\ \A j \in 1..(k - 1) : names[j] # name
    IN  SubSeq(names, 1, i - 1) \o SubSeq(names, i + 1, Len(names))

RemoveAt(s, i) == SubSeq(s, 1, i - 1) \o SubSeq(s, i + 1, Len(s))

\* mutant: the return is one level out, only the first bucket is looked at
RemoveTeamFromFirstBucket(stand, team_to_reset) ==
    IF stand # <<>> /\ Contains(stand[1].teams, team_to_reset)
    THEN LET left == RemoveFirst(stand[1].teams, team_to_reset)
         IN  IF left = <<>> THEN RemoveAt(stand, 1)
             ELSE [stand EXCEPT ![1].teams = left]
    ELSE stand

\* _remove_team_from_standings: the first bucket that holds the team loses it,
\* and goes when it is left empty
RemoveTeamFromStandings(stand, team_to_reset) ==
    IF \E i \in 1..Len(stand) : Contains(stand[i].teams, team_to_reset)
    THEN LET i == CHOOSE k \in 1..Len(stand) :
                      /\ Contains(stand[k].teams, team_to_reset)
                      /\ \A j \in 1..(k - 1) : ~Contains(stand[j].teams, team_to_reset)
             left == RemoveFirst(stand[i].teams, team_to_reset)
         IN  IF left = <<>> THEN RemoveAt(stand, i)
             ELSE [stand EXCEPT ![i].teams = left]
    ELSE stand

\* dict(sorted(self.standings.items())): ascending rank, the keys are distinct
RECURSIVE InsertByRank(_, _)
InsertByRank(sorted, item) ==
    IF sorted = <<>> THEN <<item>>
    ELSE IF item.rank < Head(sorted).rank
         THEN <<item>> \o sorted
         ELSE <<Head(sorted)>> \o InsertByRank(Tail(sorted), item)

RECURSIVE SortByRank(_, _)
SortByRank(items, sorted) ==
    IF items = <<>> THEN sorted
    ELSE SortByRank(Tail(items), InsertByRank(sorted, Head(items)))

\* the insertion of _set_standing_for_team, after its removal
InsertTeam(stand, team_name, standing) ==
    LET i == RankIndex(stand, standing)
        added == IF i = 0
                 THEN Append(stand, [rank |-> standing, teams |-> <<team_name>>])
                 ELSE [stand EXCEPT ![i].teams = Append(@, team_name)]
    IN  SortByRank(added, <<>>)

\* mutant: the call of _remove_team_from_standings is missing
SetStandingWithoutRemoval(stand, team_name, standing) ==
    InsertTeam(stand, team_name, standing)

SetStandingForTeam(stand, team_name, standing) ==
    InsertTeam(RemoveTeamFromStandings(stand, team_name), team_name, standing)

\* ------------------------------------------------- place_teams_in_rankings
\* sorted(teams_to_place_by_wins.items(), reverse=True): the keys are distinct
\* mutant: reverse=True is missing, the groups come in ascending wins
RECURSIVE InsertByWinsAscending(_, _)
InsertByWinsAscending(sorted, item) ==
    IF sorted = <<>> THEN <<item>>
    ELSE IF item.key < Head(sorted).key
         THEN <<item>> \o sorted
         ELSE <<Head(sorted)>> \o InsertByWinsAscending(Tail(sorted), item)

RECURSIVE InsertByWins(_, _)
InsertByWins(sorted, item) ==
    IF sorted = <<>> THEN <<item>>
    ELSE IF item.key > Head(sorted).key
         THEN <<item>> \o sorted
         ELSE <<Head(sorted)>> \o InsertByWins(Tail(sorted), item)

RECURSIVE SortByWins(_, _)
SortByWins(items, sorted) ==
    IF items = <<>> THEN sorted
    ELSE SortByWins(Tail(items), InsertByWins(sorted, Head(items)))

\* The inner loop over the teams of one group.  acc is [dict, next_rank]; the
\* append and the increment are inside the test `if not ranking_dict.get(rank)`.
RECURSIVE PlaceGroup(_, _, _)
PlaceGroup(teams_with_these_wins, rank, acc) ==
    IF teams_with_these_wins = <<>> THEN acc
    ELSE LET i == RankIndex(acc.dict, rank)
             absent == i = 0 \/ acc.dict[i].teams = <<>>
         IN  PlaceGroup(Tail(teams_with_these_wins), rank,
                 IF absent
                 THEN [dict |-> Append(acc.dict,
                                       [rank |-> rank,
                                        teams |-> <<Head(teams_with_these_wins)>>]),
                       next_rank |-> acc.next_rank + 1]
                 ELSE acc)

RECURSIVE PlaceGroups(_, _)
PlaceGroups(groups, acc) ==
    IF groups = <<>> THEN acc
    ELSE PlaceGroups(Tail(groups), PlaceGroup(Head(groups).teams, acc.next_rank, acc))

\* the ranking_dict that place_teams_in_rankings fills, starting empty
PlaceTeamsInRankings(teams_to_place_by_wins, next_rank) ==
    PlaceGroups(SortByWins(teams_to_place_by_wins, <<>>),
                [dict |-> <<>>, next_rank |-> next_rank]).dict

\* --------------------------------------------------------- make_tiebreaker
Others(teams_at_this_rank, team_name) ==
    SelectSeq(teams_at_this_rank, LAMBDA other_team : other_team # team_name)

\* teams_h2h_wins / tied_teams: the items [name, wins] in the bucket's order
TiedWins(pass, league_teams, teams_at_this_rank) ==
    [i \in 1..Len(teams_at_this_rank) |->
        LET team_name == teams_at_this_rank[i]
        IN  [name |-> team_name,
             record |-> IF pass = "h2h"
                        THEN HeadToHeadWins(TeamOf(league_teams, team_name),
                                            Others(teams_at_this_rank, team_name))
                        ELSE WinsInSecondHalf(TeamOf(league_teams, team_name))]]

Placing(pass, league_teams, teams_at_this_rank) ==
    PlaceTeamsInRankings(TeamsByRecords(TiedWins(pass, league_teams, teams_at_this_rank)), 0)

\* "Inserting teams back in standings": the calls made for one placing dict,
\* in order, as [team, standing]
RECURSIVE MovesOfTeams(_, _)
MovesOfTeams(teams_at_this_placing, standing) ==
    IF teams_at_this_placing = <<>> THEN <<>>
    ELSE <<[team |-> Head(teams_at_this_placing), standing |-> standing]>>
         \o MovesOfTeams(Tail(teams_at_this_placing), standing)

\* mutant: a placing p moves its teams to rank + p + 1, one rank too far
RECURSIVE MovesOfPlacingOneTooFar(_, _)
MovesOfPlacingOneTooFar(placing, rank) ==
    IF placing = <<>> THEN <<>>
    ELSE (IF Head(placing).rank = 0 THEN <<>>
          ELSE MovesOfTeams(Head(placing).teams, rank + Head(placing).rank + 1))
         \o MovesOfPlacingOneTooFar(Tail(placing), rank)

RECURSIVE MovesOfPlacing(_, _)
MovesOfPlacing(placing, rank) ==
    IF placing = <<>> THEN <<>>
    ELSE (IF Head(placing).rank = 0 THEN <<>>
          ELSE MovesOfTeams(Head(placing).teams, rank + Head(placing).rank))
         \o MovesOfPlacing(Tail(placing), rank)

\* the calls of one pass over the snapshot standings_copy, bucket after bucket
RECURSIVE PassMoves(_, _, _)
PassMoves(pass, league_teams, copy) ==
    IF copy = <<>> THEN <<>>
    ELSE (IF Len(Head(copy).teams) > 1
          THEN MovesOfPlacing(Placing(pass, league_teams, Head(copy).teams), Head(copy).rank)
          ELSE <<>>)
         \o PassMoves(pass, league_teams, Tail(copy))

\* one call: _remove_team_from_standings, then _set_standing_for_team
MoveTeam(stand, move) ==
    SetStandingForTeam(RemoveTeamFromStandings(stand, move.team), move.team, move.standing)

RECURSIVE ApplyMoves(_, _)
ApplyMoves(stand, moves) ==
    IF moves = <<>> THEN stand
    ELSE ApplyMoves(MoveTeam(stand, Head(moves)), Tail(moves))

SolveTiesThroughHeadToHeads(league_teams, stand) ==
    ApplyMoves(stand, PassMoves("h2h", league_teams, stand))

SolveTiesThroughWinsInSecondHalf(league_teams, stand) ==
    ApplyMoves(stand, PassMoves("second", league_teams, stand))

MakeTiebreaker(league_teams, stand) ==
    SolveTiesThroughWinsInSecondHalf(league_teams,
                                     SolveTiesThroughHeadToHeads(league_teams, stand))

\* ------------------------------------------------------ PossibilityHandler
\* a pool worker with no task in hand
Idle == <<>>

\* Pool.map_async without a chunksize: divmod(len(iterable), len(pool) * 4),
\* one more when there is a remainder
ChunkSize(tasks, processes) ==
    (tasks \div (processes * 4)) + (IF tasks % (processes * 4) # 0 THEN 1 ELSE 0)

\* The Match lists one worker process holds: self is upcomming_matches of the
\* handler unpickled with the task, copy the list upcoming_matches_copy, ref the
\* list the name upcoming_matches_copy refers to, possibility the vector of the
\* last call.
FreshProcess(upcoming) ==
    [self |-> upcoming, copy |-> <<>>, ref |-> "none", possibility |-> <<>>]

\* mutant: upcoming_matches_copy = self.upcomming_matches, no copy is made
AliasUpcoming(memory) == [memory EXCEPT !.ref = "self"]

\* copy.deepcopy(self.upcomming_matches): new Match objects
DeepCopyUpcoming(memory) == [memory EXCEPT !.copy = memory.self, !.ref = "copy"]

\* itertools.product([0, 1], repeat=n), in its order
RECURSIVE Product(_)
Product(n) ==
    IF n = 0 THEN <<<<>>>>
    ELSE LET rest == Product(n - 1)
         IN  [i \in 1..Len(rest) |-> <<0>> \o rest[i]]
             \o [i \in 1..Len(rest) |-> <<1>> \o rest[i]]

\* mutant: the convention is turned round, 1 gives the away team the win
SetOutcomesSwapped(upcoming, possibility) ==
    [index \in 1..Len(upcoming) |->
        [upcoming[index] EXCEPT
            !.result = IF possibility[index] = 1 THEN AwayWin ELSE HomeWin]]

\* _set_upcoming_matches_outcomes on the deep copy of upcomming_matches
SetUpcomingMatchesOutcomes(upcoming, possibility) ==
    [index \in 1..Len(upcoming) |->
        [upcoming[index] EXCEPT
            !.result = IF possibility[index] = 1 THEN HomeWin ELSE AwayWin]]

\* generated_league.standings of get_possibilities, after make_tiebreaker
GeneratedStandings(finished, upcoming, possibility) ==
    LET league_teams == GetLeagueFromMatches(
                            finished \o SetUpcomingMatchesOutcomes(upcoming, possibility))
    IN  MakeTiebreaker(league_teams, MakeStandings(league_teams))

Occurrences(names, name) == Cardinality({j \in 1..Len(names) : names[j] = name})

\* mutant: the `else` is missing, the first occurrence sets 1 and adds 1
CumulateOutcomeNoElse(stand) ==
    LET seen == {stand[i].teams[j] : <<i, j>> \in
                    {<<a, b>> \in (1..Len(stand)) \X (1..NumTeams) : b <= Len(stand[a].teams)}}
    IN  [team \in seen |->
            [standing \in {stand[i].rank : i \in {a \in 1..Len(stand) :
                                                     Contains(stand[a].teams, team)}} |->
                Occurrences(stand[RankIndex(stand, standing)].teams, team) + 1]]

\* _cumulate_outcome: the dict team -> (standing -> count) put on the queue;
\* the dicts of counts are functions, their order plays no part
CumulateOutcome(stand) ==
    LET seen == {stand[i].teams[j] : <<i, j>> \in
                    {<<a, b>> \in (1..Len(stand)) \X (1..NumTeams) : b <= Len(stand[a].teams)}}
    IN  [team \in seen |->
            [standing \in {stand[i].rank : i \in {a \in 1..Len(stand) :
                                                     Contains(stand[a].teams, team)}} |->
                Occurrences(stand[RankIndex(stand, standing)].teams, team)]]

\* get_possibilities: what one scenario puts on the queue
GetPossibilities(finished, upcoming, possibility) ==
    CumulateOutcome(GeneratedStandings(finished, upcoming, possibility))

\* get_possibilities, lines 78-79: the lists of the process after the outcomes
\* are assigned in place to the list upcoming_matches_copy refers to
ScenarioMemory(memory, possibility) ==
    LET copied == DeepCopyUpcoming(memory)
    IN  [copied EXCEPT ![copied.ref] = SetUpcomingMatchesOutcomes(copied[copied.ref],
                                                                  possibility),
                       !.possibility = possibility]

\* the body of the loop of _cumulate_results for one result: every
\* (team, ranking) of the result counts 1, whatever its amount
CumulateResult(cumulated, result) ==
    [team \in (DOMAIN cumulated) \cup (DOMAIN result) |->
        IF team \notin DOMAIN result THEN cumulated[team]
        ELSE LET old == IF team \in DOMAIN cumulated THEN cumulated[team] ELSE <<>>
             IN  [ranking \in (DOMAIN old) \cup (DOMAIN result[team]) |->
                     (IF ranking \in DOMAIN old THEN old[ranking] ELSE 0)
                     + (IF ranking \in DOMAIN result[team] THEN 1 ELSE 0)]]

\* ============================================================== LeagueSpec
Results == {HomeWin, AwayWin}

\* no call has been made from outside
NoCall == [op |-> "none", team |-> None, arg |-> <<>>, value |-> <<>>]

\* get_league_from_matches on the played fixtures of a season in progress
LeagueInit ==
    \E S \in SUBSET (1..Len(Schedule)) :
        /\ Cardinality(S) <= MaxMatches
        /\ \E res \in [S -> Results] :
            /\ matches = MatchList(1, S, res)
            /\ teams = GetLeagueFromMatches(matches)
            /\ standings = MakeStandings(teams)
    /\ h2h_copy = <<>>
    /\ second_copy = <<>>
    /\ todo = <<>>
    /\ pc = "built"
    /\ step = "remove"
    /\ calls = 0
    /\ finished_matches = <<>>
    /\ upcomming_matches = <<>>
    /\ possibilities = <<>>
    /\ worker = [w \in 1..NumWorkers |-> Idle]
    /\ queue = <<>>
    /\ cumulated_outcomes = <<>>
    /\ agg = "off"
    /\ process = [w \in 1..NumWorkers |-> FreshProcess(<<>>)]
    /\ ran = <<>>
    /\ failed = {}
    /\ got = NoCall

\* make_tiebreaker is called and the head-to-head pass takes its snapshot
StartTiebreaker ==
    /\ pc \in {"built", "done"}
    /\ calls < MaxCalls
    /\ calls' = calls + 1
    /\ pc' = "h2h"
    /\ h2h_copy' = standings
    /\ todo' = PassMoves("h2h", teams, standings)
    /\ UNCHANGED <<matches, teams, standings, second_copy, step>>
    /\ UNCHANGED <<engineVars, got>>

\* self._remove_team_from_standings(team_name)
RemoveStep ==
    /\ pc \in {"h2h", "second"}
    /\ todo # <<>>
    /\ step = "remove"
    /\ standings' = RemoveTeamFromStandings(standings, Head(todo).team)
    /\ step' = "set"
    /\ UNCHANGED <<matches, teams, h2h_copy, second_copy, todo, pc, calls>>
    /\ UNCHANGED <<engineVars, got>>

\* self._set_standing_for_team(team_name, rank + placing)
SetStep ==
    /\ pc \in {"h2h", "second"}
    /\ todo # <<>>
    /\ step = "set"
    /\ standings' = SetStandingForTeam(standings, Head(todo).team, Head(todo).standing)
    /\ todo' = Tail(todo)
    /\ step' = "remove"
    /\ UNCHANGED <<matches, teams, h2h_copy, second_copy, pc, calls>>
    /\ UNCHANGED <<engineVars, got>>

\* the head-to-head pass returns, the second-half pass takes its snapshot
EndHeadToHeads ==
    /\ pc = "h2h"
    /\ todo = <<>>
    /\ pc' = "second"
    /\ second_copy' = standings
    /\ todo' = PassMoves("second", teams, standings)
    /\ UNCHANGED <<matches, teams, standings, h2h_copy, step, calls>>
    /\ UNCHANGED <<engineVars, got>>

EndSecondHalf ==
    /\ pc = "second"
    /\ todo = <<>>
    /\ pc' = "done"
    /\ UNCHANGED <<matches, teams, standings, h2h_copy, second_copy, todo, step, calls>>
    /\ UNCHANGED <<engineVars, got>>

LeagueNext ==
    \/ StartTiebreaker
    \/ RemoveStep
    \/ SetStep
    \/ EndHeadToHeads
    \/ EndSecondHalf

LeagueSpec == LeagueInit /\ [][LeagueNext]_vars

\* ================================================================ TeamSpec
\* A League built from the list of a season's matches, played or not, and one
\* call of Team.record or Team.head_to_head_wins on one of its teams.  The
\* calls assign nothing, so one call on each League shows them all.
ListedResults == {HomeWin, AwayWin, NoResult}

\* the state after get_league_from_matches on a list of at most MaxListed
\* matches of the schedule with results among the given ones
BuiltFrom(results) ==
    /\ \E S \in SUBSET (1..Len(Schedule)) :
        /\ Cardinality(S) <= MaxListed
        /\ \E res \in [S -> results] :
            /\ matches = MatchList(1, S, res)
            /\ teams = GetLeagueFromMatches(matches)
            /\ standings = MakeStandings(teams)
    /\ h2h_copy = <<>>
    /\ second_copy = <<>>
    /\ todo = <<>>
    /\ pc = "calls"
    /\ step = "remove"
    /\ calls = 0
    /\ finished_matches = <<>>
    /\ upcomming_matches = <<>>
    /\ possibilities = <<>>
    /\ worker = [w \in 1..NumWorkers |-> Idle]
    /\ queue = <<>>
    /\ cumulated_outcomes = <<>>
    /\ agg = "off"
    /\ process = [w \in 1..NumWorkers |-> FreshProcess(<<>>)]
    /\ ran = <<>>
    /\ failed = {}
    /\ got = NoCall

TeamInit == BuiltFrom(ListedResults)

\* the lists of distinct names of S, in any order
ListsOf(S) ==
    {l \in UNION {[1..n -> S] : n \in 0..Cardinality(S)} :
        \A i, j \in 1..Len(l) : l[i] = l[j] => i = j}

\* team.record is read: wins, then losses
ReadRecord(i) ==
    /\ got = NoCall
    /\ got' = [op |-> "record", team |-> teams[i].name, arg |-> <<>>,
               value |-> Record(teams[i])]
    /\ UNCHANGED <<leagueVars, engineVars>>

\* team.head_to_head_wins(other_teams) with a list of other teams of the league
CallHeadToHeadWins(i, other_teams) ==
    /\ got = NoCall
    /\ got' = [op |-> "head_to_head_wins", team |-> teams[i].name, arg |-> other_teams,
               value |-> HeadToHeadWins(teams[i], other_teams)]
    /\ UNCHANGED <<leagueVars, engineVars>>

TeamNext ==
    \/ \E i \in 1..Len(teams) : ReadRecord(i)
    \/ \E i \in 1..Len(teams) :
           \E other_teams \in ListsOf(TeamNamesOf(teams) \ {teams[i].name}) :
               CallHeadToHeadWins(i, other_teams)

TeamSpec == TeamInit /\ [][TeamNext]_vars

\* ============================================================ StandingSpec
\* A League built from played matches, on which _set_standing_for_team is
\* called with any team of the league and any rank.
StandingInit == BuiltFrom(Results)

\* league._set_standing_for_team(team_name, standing); got keeps the standings
\* the call found
CallSetStandingForTeam(team_name, standing) ==
    /\ calls < MaxSets
    /\ calls' = calls + 1
    /\ standings' = SetStandingForTeam(standings, team_name, standing)
    /\ got' = [op |-> "_set_standing_for_team", team |-> team_name, arg |-> standing,
               value |-> standings]
    /\ UNCHANGED <<matches, teams, h2h_copy, second_copy, todo, pc, step>>
    /\ UNCHANGED engineVars

StandingNext ==
    \E i \in 1..Len(teams) : \E standing \in 1..Len(teams) :
        CallSetStandingForTeam(teams[i].name, standing)

StandingSpec == StandingInit /\ [][StandingNext]_vars

\* ==================================================================== Spec
RECURSIVE Pow2(_)
Pow2(n) == IF n = 0 THEN 1 ELSE 2 * Pow2(n - 1)

\* number of scenarios of the run
ScenarioCount == Pow2(Len(upcomming_matches))

\* the outcome vectors of n matches
Vectors(n) == [1..n -> {0, 1}]

\* PossibilityHandler.__init__ on the matches file of a season in progress:
\* the first fixtures of the schedule have a result, the next ones have none.
\* The state is the one after pool.map_async: the outcome vectors wait, in
\* order, to be handed out in chunks to the processes of the pool.
Init ==
    /\ \E k \in 0..MaxFinished : \E u \in 0..MaxUnplayed :
        \E res \in [1..k -> Results] :
            /\ finished_matches = [i \in 1..k |-> Match(Schedule[i], res[i])]
            /\ upcomming_matches = [i \in 1..u |-> Match(Schedule[k + i], NoResult)]
            /\ possibilities = Product(u)
            /\ ran = [v \in Vectors(u) |-> 0]
    /\ \E p \in 1..NumWorkers :
        /\ worker = [w \in 1..p |-> Idle]
        /\ process = [w \in 1..p |-> FreshProcess(<<>>)]
    /\ failed = {}
    /\ got = NoCall
    /\ queue = <<>>
    /\ cumulated_outcomes = <<>>
    /\ agg = "sleep"
    /\ matches = <<>>
    /\ teams = <<>>
    /\ standings = <<>>
    /\ h2h_copy = <<>>
    /\ second_copy = <<>>
    /\ todo = <<>>
    /\ pc = "off"
    /\ step = "remove"
    /\ calls = 0

\* a pool worker takes the next task, a chunk of vectors, and unpickles the
\* handler sent with it
TakeTask(w) ==
    /\ worker[w] = Idle
    /\ possibilities # <<>>
    /\ LET size == ChunkSize(ScenarioCount, Len(worker))
           taken == IF size < Len(possibilities) THEN size ELSE Len(possibilities)
       IN  /\ worker' = [worker EXCEPT ![w] = SubSeq(possibilities, 1, taken)]
           /\ possibilities' = SubSeq(possibilities, taken + 1, Len(possibilities))
    /\ process' = [process EXCEPT ![w] = FreshProcess(upcomming_matches)]
    /\ UNCHANGED <<finished_matches, upcomming_matches, queue, cumulated_outcomes, agg,
                   ran, failed>>
    /\ UNCHANGED <<leagueVars, got>>

\* get_possibilities on the next vector of the chunk, ending with
\* queue.put(cumulated_results)
PutResult(w) ==
    /\ worker[w] # Idle
    /\ LET possibility == Head(worker[w])
       IN  /\ process' = [process EXCEPT ![w] = ScenarioMemory(@, possibility)]
           /\ queue' = Append(queue, GetPossibilities(finished_matches, process[w].self,
                                                      possibility))
           /\ ran' = [ran EXCEPT ![possibility] = @ + 1]
    /\ worker' = [worker EXCEPT ![w] = Tail(@)]
    /\ UNCHANGED <<finished_matches, upcomming_matches, possibilities, cumulated_outcomes,
                   agg, failed>>
    /\ UNCHANGED <<leagueVars, got>>

NoWorkLeft == possibilities = <<>> /\ \A w \in 1..Len(worker) : worker[w] = Idle

\* time.sleep(10) "give producer some time to start": the sleep is taken to
\* outlast the first scenario, it ends once a result is on the queue (or no
\* worker has anything left to put)
SleepEnds ==
    /\ agg = "sleep"
    /\ queue # <<>> \/ NoWorkLeft
    /\ agg' = "loop"
    /\ UNCHANGED <<finished_matches, upcomming_matches, possibilities, worker, queue,
                   cumulated_outcomes, process, ran, failed>>
    /\ UNCHANGED <<leagueVars, got>>

\* one turn of the loop with a result on the queue: queue.get() and the sums
GetResult ==
    /\ agg = "loop"
    /\ queue # <<>>
    /\ cumulated_outcomes' = CumulateResult(cumulated_outcomes, Head(queue))
    /\ queue' = Tail(queue)
    /\ UNCHANGED <<finished_matches, upcomming_matches, possibilities, worker, agg,
                   process, ran, failed>>
    /\ UNCHANGED <<leagueVars, got>>

\* mutant: no break, the loop goes on to queue.get() on the empty queue
GetOnEmpty ==
    /\ agg = "loop"
    /\ queue = <<>>
    /\ agg' = "get"
    /\ UNCHANGED <<finished_matches, upcomming_matches, possibilities, worker, queue,
                   cumulated_outcomes, process, ran, failed>>
    /\ UNCHANGED <<leagueVars, got>>

\* queue.empty() is true: break, _cumulate_results returns, pool.close()
BreakOnEmpty ==
    /\ agg = "loop"
    /\ queue = <<>>
    /\ agg' = "returned"
    /\ UNCHANGED <<finished_matches, upcomming_matches, possibilities, worker, queue,
                   cumulated_outcomes, process, ran, failed>>
    /\ UNCHANGED <<leagueVars, got>>

\* pool.join() returns once the workers have run every task;
\* multiprocess_possibilities returns
Join ==
    /\ agg = "returned"
    /\ NoWorkLeft
    /\ agg' = "joined"
    /\ UNCHANGED <<finished_matches, upcomming_matches, possibilities, worker, queue,
                   cumulated_outcomes, process, ran, failed>>
    /\ UNCHANGED <<leagueVars, got>>

Next ==
    \/ \E w \in 1..Len(worker) : TakeTask(w)
    \/ \E w \in 1..Len(worker) : PutResult(w)
    \/ SleepEnds
    \/ GetResult
    \/ BreakOnEmpty
    \/ Join

Spec == Init /\ [][Next]_vars

\* ================================================================ FailSpec
\* The run in which one get_possibilities call raises.  Nothing in
\* get_possibilities or multiprocess_possibilities catches: the exception
\* leaves the loop that runs the chunk, the vectors left in the chunk are not
\* run, the worker goes on to its next task, and the error is stored in the
\* result of map_async, which nobody reads.
Fail(w) ==
    /\ worker[w] # Idle
    /\ failed = {}
    /\ failed' = {Head(worker[w])}
    /\ worker' = [worker EXCEPT ![w] = Idle]
    /\ UNCHANGED <<finished_matches, upcomming_matches, possibilities, queue,
                   cumulated_outcomes, agg, process, ran>>
    /\ UNCHANGED <<leagueVars, got>>

FailNext ==
    \/ \E w \in 1..Len(worker) : TakeTask(w)
    \/ \E w \in 1..Len(worker) : PutResult(w)
    \/ \E w \in 1..Len(worker) : Fail(w)
    \/ SleepEnds
    \/ GetResult
    \/ BreakOnEmpty
    \/ Join

FailSpec == Init /\ [][FailNext]_vars

\* ================================================================ FairSpec
\* queue.empty() is false: the loop goes on to the line of queue.get()
QueueNotEmpty ==
    /\ agg = "loop"
    /\ queue # <<>>
    /\ agg' = "get"
    /\ UNCHANGED <<finished_matches, upcomming_matches, possibilities, worker, queue,
                   cumulated_outcomes, process, ran, failed>>
    /\ UNCHANGED <<leagueVars, got>>

\* queue.get() blocks until the queue holds a result, takes the first one,
\* and the sums of the turn are made
QueueGet ==
    /\ agg = "get"
    /\ queue # <<>>
    /\ cumulated_outcomes' = CumulateResult(cumulated_outcomes, Head(queue))
    /\ queue' = Tail(queue)
    /\ agg' = "loop"
    /\ UNCHANGED <<finished_matches, upcomming_matches, possibilities, worker, process,
                   ran, failed>>
    /\ UNCHANGED <<leagueVars, got>>

\* Pool worker w, when the pool has that many processes, goes on: it takes a
\* task, or the call of get_possibilities it is in returns and the vector
\* leaves its chunk.  A step of FairNext changes worker[w] in these two cases
\* only, the second being PutResult(w).
WorkerRuns(w) ==
    /\ w \in 1..Len(worker)
    /\ \/ TakeTask(w)
       \/ /\ worker[w] # Idle
          /\ worker' = [worker EXCEPT ![w] = Tail(@)]

\* a step of the main process
MainStep == SleepEnds \/ QueueNotEmpty \/ QueueGet \/ BreakOnEmpty \/ Join

FairNext ==
    \/ \E w \in 1..Len(worker) : TakeTask(w)
    \/ \E w \in 1..Len(worker) : PutResult(w)
    \/ SleepEnds
    \/ QueueNotEmpty
    \/ QueueGet
    \/ BreakOnEmpty
    \/ Join

\* the operating system runs every process that can take a step
FairSpec ==
    /\ Init
    /\ [][FairNext]_vars
    /\ \A w \in 1..NumWorkers : WF_worker(WorkerRuns(w))
    /\ WF_vars(MainStep)

\* ================================================================= claims
\* rank of the bucket that holds the team, 0 when no bucket does
RankOf(stand, name) ==
    IF \E i \in 1..Len(stand) : Contains(stand[i].teams, name)
    THEN stand[CHOOSE i \in 1..Len(stand) : Contains(stand[i].teams, name)].rank
    ELSE 0

\* the names of all buckets, one after the other
RECURSIVE AllNames(_)
AllNames(stand) ==
    IF stand = <<>> THEN <<>> ELSE Head(stand).teams \o AllNames(Tail(stand))

RECURSIVE SumOfSizes(_)
SumOfSizes(stand) ==
    IF stand = <<>> THEN 0 ELSE Len(Head(stand).teams) + SumOfSizes(Tail(stand))

\* no bucket is empty, every name in a bucket is a team, every team is at one
\* place of one bucket, the sizes sum to the number of teams
IsPartition(stand, league_teams) ==
    LET all == AllNames(stand)
    IN  /\ \A i \in 1..Len(stand) : stand[i].teams # <<>>
        /\ {all[k] : k \in 1..Len(all)} = TeamNamesOf(league_teams)
        /\ \A k, l \in 1..Len(all) : all[k] = all[l] => k = l
        /\ SumOfSizes(stand) = Len(league_teams)

\* C3: at construction and after every completed _set_standing_for_team call
\* made by make_tiebreaker, the rank buckets partition the team names: every
\* team in exactly one bucket, none twice, no bucket empty, sizes summing to
\* the number of teams.
C3_BucketsPartitionTeams ==
    step = "remove" => IsPartition(standings, teams)

\* a _set_standing_for_team call has completed and moved a team out of a
\* bucket of three
C3_Witness ==
    /\ pc = "h2h"
    /\ step = "remove"
    /\ standings # h2h_copy
    /\ \E i \in 1..Len(h2h_copy) : Len(h2h_copy[i].teams) = 3

\* the bucket of the standings that holds the team
BucketOf(stand, name) ==
    stand[CHOOSE i \in 1..Len(stand) : Contains(stand[i].teams, name)].teams

\* head-to-head wins of a team among the teams of the bucket it was built into
TiedHeadToHeadWins(league_teams, name) ==
    HeadToHeadWins(TeamOf(league_teams, name),
                   Others(BucketOf(MakeStandings(league_teams), name), name))

FirstCallDone == pc = "done" /\ calls = 1

\* C4: after make_tiebreaker, of two teams with the same (wins, losses) the one
\* with more head-to-head wins among the teams tied at that rank has the
\* strictly smaller rank number; with equal head-to-head wins the one with more
\* second-half wins has the strictly smaller rank number.
C4_TiebreakOrder ==
    FirstCallDone =>
        \A x, y \in TeamNamesOf(teams) :
            Record(TeamOf(teams, x)) = Record(TeamOf(teams, y)) =>
                LET hx == TiedHeadToHeadWins(teams, x)
                    hy == TiedHeadToHeadWins(teams, y)
                    sx == WinsInSecondHalf(TeamOf(teams, x))
                    sy == WinsInSecondHalf(TeamOf(teams, y))
                IN  /\ hx > hy => RankOf(standings, x) < RankOf(standings, y)
                    /\ (hx = hy /\ sx > sy) => RankOf(standings, x) < RankOf(standings, y)

\* _solve_ties_through_head_to_heads has returned: h2h_copy is the standings it
\* started from, second_copy the standings it left
HeadToHeadsDone == pc \in {"second", "done"}

\* x has a 1-0 head-to-head record over y
OneNil(league_teams, x, y) ==
    /\ MatchupWins(TeamOf(league_teams, x), y) = 1
    /\ MatchupWins(TeamOf(league_teams, y), x) = 0

\* C5: when exactly two teams x and y share a bucket and x is 1-0 against y,
\* then after _solve_ties_through_head_to_heads x is at the bucket's rank and
\* y at a strictly greater one, whichever of them is first in the bucket.
C5_TwoTeamHeadToHead ==
    HeadToHeadsDone =>
        \A i \in 1..Len(h2h_copy) :
            Len(h2h_copy[i].teams) = 2 =>
                \A k \in 1..2 :
                    LET x == h2h_copy[i].teams[k]
                        y == h2h_copy[i].teams[3 - k]
                    IN  OneNil(teams, x, y) =>
                            /\ RankOf(second_copy, x) = h2h_copy[i].rank
                            /\ RankOf(second_copy, y) > h2h_copy[i].rank

\* the pass has run on a bucket whose second team beat its first
C5_Witness ==
    /\ HeadToHeadsDone
    /\ \E i \in 1..Len(h2h_copy) :
        /\ Len(h2h_copy[i].teams) = 2
        /\ OneNil(teams, h2h_copy[i].teams[2], h2h_copy[i].teams[1])

SecondCallDone == pc = "done" /\ calls = 2

\* C6: a second make_tiebreaker call leaves the standings of the first call
\* as they are (h2h_copy is the snapshot the second call started from).
C6_Idempotent ==
    SecondCallDone => standings = h2h_copy

AtMostTwoTied(league_teams) ==
    LET built == MakeStandings(league_teams)
    IN  \A i \in 1..Len(built) : Len(built[i].teams) <= 2

\* C6 as amended: idempotent for every league in which no more than two teams
\* share a (wins, losses) record.
C6_IdempotentUpToPairs ==
    (SecondCallDone /\ AtMostTwoTied(teams)) => standings = h2h_copy

\* a second call has run on standings in which the first call left a pair tied
C6_Witness ==
    /\ SecondCallDone
    /\ AtMostTwoTied(teams)
    /\ \E i \in 1..Len(h2h_copy) : Len(h2h_copy[i].teams) = 2
    /\ \E i \in 1..Len(standings) : Len(standings[i].teams) = 1

\* the pass of the one make_tiebreaker call get_possibilities makes on a League
FirstHeadToHeadsDone == HeadToHeadsDone /\ calls = 1

Better(r1, r2) == r1[1] > r2[1] \/ (r1[1] = r2[1] /\ r1[2] < r2[2])

\* C9: make_standings puts the teams of one record in one bucket, the buckets
\* in descending record order, and ranks each bucket 1 plus the number of
\* teams in better buckets.
C9_StandingsAtConstruction ==
    pc = "built" =>
        /\ IsPartition(standings, teams)
        /\ \A i \in 1..Len(standings) : \A k \in 1..Len(standings[i].teams) :
               Record(TeamOf(teams, standings[i].teams[k]))
                   = Record(TeamOf(teams, standings[i].teams[1]))
        /\ \A i, j \in 1..Len(standings) :
               i < j => Better(Record(TeamOf(teams, standings[i].teams[1])),
                               Record(TeamOf(teams, standings[j].teams[1])))
        /\ \A i \in 1..Len(standings) :
               standings[i].rank = 1 + SumOfSizes(SubSeq(standings, 1, i - 1))

\* two teams share rank 1 and the next bucket has rank 3
C9_Witness ==
    /\ pc = "built"
    /\ Len(standings) >= 2
    /\ standings[1].rank = 1
    /\ Len(standings[1].teams) = 2
    /\ standings[2].rank = 3

AlphabeticIndex(name) == CHOOSE i \in 1..NumTeams : TeamNames[i] = name

RECURSIVE SumOver(_, _)
SumOver(f, S) ==
    IF S = {} THEN 0
    ELSE LET x == CHOOSE y \in S : TRUE
         IN  f[x] + SumOver(f, S \ {x})

\* sum(cumulated_outcomes[team].values()), 0 for a team with no entry
TotalOf(cumulated, team) ==
    IF team \in DOMAIN cumulated THEN SumOver(cumulated[team], DOMAIN cumulated[team]) ELSE 0

LeagueNames(ms) == {ms[i].teams[k] : <<i, k>> \in (1..Len(ms)) \X {1, 2}}

Returned == agg = "joined"

\* C1: once multiprocess_possibilities has returned, every team's counts over
\* all ranks sum to 2^U, whatever the workers and the interleaving.
C1_TotalsAreScenarioCount ==
    Returned =>
        \A team \in LeagueNames(finished_matches \o upcomming_matches) :
            TotalOf(cumulated_outcomes, team) = ScenarioCount

\* C2: _cumulate_results has not stopped while a worker still runs, a task is
\* still to be taken or a result is still on the queue: it has consumed one
\* result per dispatched scenario.
C2_AggregatorConsumesEveryResult ==
    agg \in {"returned", "joined"} => (NoWorkLeft /\ queue = <<>>)

RECURSIVE CumulateAll(_, _, _, _)
CumulateAll(cumulated, finished, upcoming, todo_possibilities) ==
    IF todo_possibilities = <<>> THEN cumulated
    ELSE CumulateAll(CumulateResult(cumulated,
                                    GetPossibilities(finished, upcoming,
                                                     Head(todo_possibilities))),
                     finished, upcoming, Tail(todo_possibilities))

\* C8: every complete run on the same matches ends with the same counts: those
\* of the run that reads every scenario's result.
C8_SameCountsEveryRun ==
    Returned =>
        cumulated_outcomes =
            CumulateAll(<<>>, finished_matches, upcomming_matches,
                        Product(Len(upcomming_matches)))

HasNoResult(ms) == \A i \in 1..Len(ms) : ms[i].result = NoResult

\* C11: get_possibilities writes results only to the Match objects of its own
\* deep copy.  The handler a worker process runs its scenarios on keeps
\* upcomming_matches as it was sent, every match without a result, after any
\* number of scenarios, so no scenario reads a Match another scenario wrote;
\* finished_matches and upcomming_matches of the engine stay as constructed.
C11_ScenarioObjectsPrivate ==
    /\ HasNoResult(upcomming_matches)
    /\ \A i \in 1..Len(finished_matches) : finished_matches[i].result # NoResult
    /\ \A w \in 1..Len(worker) :
        /\ process[w].ref # "self"
        /\ HasNoResult(process[w].self)
        /\ process[w].ref = "copy" =>
               /\ process[w].self = upcomming_matches
               /\ Len(process[w].copy) = Len(upcomming_matches)

\* one process has run the second scenario of a chunk on the handler it got
\* with the chunk
C11_Witness ==
    /\ Len(worker) = 1
    /\ Len(upcomming_matches) = 3
    /\ ran[<<0, 0, 0>>] = 1
    /\ ran[<<0, 0, 1>>] = 1
    /\ process[1].possibility = <<0, 0, 1>>
    /\ process[1].copy[3].result = HomeWin
    /\ process[1].self[3].result = NoResult

\* times the vector is among the vectors of the sequence
CountIn(vs, v) == Cardinality({i \in 1..Len(vs) : vs[i] = v})

RECURSIVE InHand(_, _)
InHand(w, v) == IF w = 0 THEN 0 ELSE CountIn(worker[w], v) + InHand(w - 1, v)

\* C12: the engine enumerates the 2^U vectors of {0,1}^U, each once: every
\* vector is at any time either still to hand out, in one worker's hands, or
\* run once, and nothing else is.  In the scenario of vector v the i-th
\* unfinished match has a result, with the home team as winner and the away
\* team as loser when v[i] = 1, the other way round when v[i] = 0.
C12_EveryVectorOnce ==
    /\ Len(possibilities) <= ScenarioCount
    /\ \A i \in 1..Len(possibilities) :
           possibilities[i] \in Vectors(Len(upcomming_matches))
    /\ \A v \in Vectors(Len(upcomming_matches)) :
           CountIn(possibilities, v) + InHand(Len(worker), v) + ran[v] = 1
    /\ \A w \in 1..Len(worker) :
           process[w].ref # "none" =>
               LET played == process[w][process[w].ref]
                   v == process[w].possibility
               IN  /\ Len(played) = Len(upcomming_matches)
                   /\ \A i \in 1..Len(played) :
                       /\ played[i].result # NoResult
                       /\ played[i].teams = upcomming_matches[i].teams
                       /\ v[i] = 1 => /\ Winner(played[i]) = played[i].teams[1]
                                      /\ Loser(played[i]) = played[i].teams[2]
                       /\ v[i] = 0 => /\ Winner(played[i]) = played[i].teams[2]
                                      /\ Loser(played[i]) = played[i].teams[1]

\* every vector of three matches has been run, the last one by a process that
\* gave the home team the first match and the away team the second
C12_Witness ==
    /\ Len(upcomming_matches) = 3
    /\ NoWorkLeft
    /\ \A v \in Vectors(3) : ran[v] = 1
    /\ \E w \in 1..Len(worker) :
        /\ process[w].possibility = <<1, 0, 1>>
        /\ Winner(process[w].copy[1]) = "A"
        /\ Winner(process[w].copy[2]) # "A"

\* the vectors of the run but the one whose call raised
OtherVectors(vs) == SelectSeq(vs, LAMBDA v : v \notin failed)

\* C13: when one get_possibilities call raises, the run still completes with
\* the result of every other scenario aggregated once: the counts are those of
\* all the vectors but the failing one.
C13_OtherScenariosAggregated ==
    (Returned /\ failed # {}) =>
        cumulated_outcomes =
            CumulateAll(<<>>, finished_matches, upcomming_matches,
                        OtherVectors(Product(Len(upcomming_matches))))

\* the part of C13 that is the workers' alone: every vector but the failing
\* one is run once (the vectors behind the failing one in its chunk are not)
C13_RestOfChunkRuns ==
    (NoWorkLeft /\ failed # {}) =>
        \A v \in Vectors(Len(upcomming_matches)) : v \notin failed => ran[v] = 1

\* ------------------------------------------------------------ team claims
\* the matches of the list in which the team plays
MatchesOf(ms, name) == {i \in 1..Len(ms) : InMatch(name, ms[i])}

\* C14: wins is the number of the team's matches whose winner is the team,
\* losses the number of those whose loser is the team; a match with no result
\* counts for neither, so wins + losses is the number of the team's matches
\* that have a result; reading the record leaves the League as it was built.
C14_WinsAndLosses ==
    got.op = "record" =>
        LET mine == MatchesOf(matches, got.team)
        IN  /\ got.value[1] = Cardinality({i \in mine : Winner(matches[i]) = got.team})
            /\ got.value[2] = Cardinality({i \in mine : Loser(matches[i]) = got.team})
            /\ got.value[1] + got.value[2]
                   = Cardinality({i \in mine : matches[i].result # NoResult})
            /\ teams = GetLeagueFromMatches(matches)
            /\ standings = MakeStandings(teams)

\* the record of a team with one win and one match not played has been read
C14_Witness ==
    /\ got.op = "record"
    /\ got.value = <<1, 0>>
    /\ Cardinality(MatchesOf(matches, got.team)) = 2

\* the other team of a match the team plays in
Opponent(m, name) == IF m.teams[1] = name THEN m.teams[2] ELSE m.teams[1]

\* C15: head_to_head_wins(others) is the number of the team's matches that
\* the team won and whose opponent is one of others: a win against a team
\* that is not in others is not counted, and no match is counted twice.
C15_HeadToHeadWins ==
    got.op = "head_to_head_wins" =>
        got.value = Cardinality({i \in MatchesOf(matches, got.team) :
                        /\ Winner(matches[i]) = got.team
                        /\ \E k \in 1..Len(got.arg) :
                               Opponent(matches[i], got.team) = got.arg[k]})

\* a team with two wins has been asked for its wins against one opponent
C15_Witness ==
    /\ got.op = "head_to_head_wins"
    /\ Len(got.arg) = 1
    /\ got.value = 1
    /\ Wins(TeamOf(teams, got.team)) = 2

\* ------------------------------------------------------- resolver claims
\* head-to-head wins of a team against the other teams of a bucket
BucketHeadToHeadWins(league_teams, bucket, name) ==
    HeadToHeadWins(TeamOf(league_teams, name), Others(bucket, name))

\* C16: after _solve_ties_through_head_to_heads the teams of a bucket of
\* several teams are grouped by their head-to-head wins within the bucket:
\* equal counts share a bucket, different counts do not, the higher count has
\* the smaller rank number, and the highest count keeps the bucket's rank.
C16_GroupedByHeadToHeadWins ==
    HeadToHeadsDone =>
        \A i \in 1..Len(h2h_copy) :
            LET bucket == h2h_copy[i].teams
            IN  Len(bucket) > 1 =>
                    \A k, l \in 1..Len(bucket) :
                        LET wins_k == BucketHeadToHeadWins(teams, bucket, bucket[k])
                            wins_l == BucketHeadToHeadWins(teams, bucket, bucket[l])
                            rank_k == RankOf(second_copy, bucket[k])
                            rank_l == RankOf(second_copy, bucket[l])
                        IN  /\ wins_k = wins_l <=> rank_k = rank_l
                            /\ wins_k > wins_l => rank_k < rank_l
                            /\ (\A m \in 1..Len(bucket) :
                                    BucketHeadToHeadWins(teams, bucket, bucket[m]) <= wins_k)
                                   => rank_k = h2h_copy[i].rank

\* the names at a rank, none when the standings have no such rank
BucketAt(stand, rank) ==
    IF RankIndex(stand, rank) = 0 THEN <<>> ELSE stand[RankIndex(stand, rank)].teams

Without(names, name) == SelectSeq(names, LAMBDA n : n # name)

RanksOf(stand) == {stand[i].rank : i \in 1..Len(stand)}

\* the team is the last name of the bucket at the rank
LastAt(stand, rank, name) ==
    LET bucket == BucketAt(stand, rank)
    IN  bucket # <<>> /\ bucket[Len(bucket)] = name

\* C17: _set_standing_for_team(team, rank) takes the team out of the bucket
\* that holds it, deleting the bucket when it is left empty, appends it to the
\* bucket at the rank, created when absent, and leaves the standings in
\* ascending rank order; every other team keeps its bucket and its place
\* among the others; a team already alone or last at the rank leaves the
\* standings as they were.
C17_SetStandingForTeam ==
    got.op = "_set_standing_for_team" =>
        LET before == got.value
            name == got.team
            rank == got.arg
        IN  /\ IsPartition(standings, teams)
            /\ LastAt(standings, rank, name)
            /\ \A i, j \in 1..Len(standings) :
                   i < j => standings[i].rank < standings[j].rank
            /\ \A q \in RanksOf(before) \cup RanksOf(standings) :
                   Without(BucketAt(standings, q), name) = Without(BucketAt(before, q), name)
            /\ RanksOf(standings) =
                   {q \in RanksOf(before) : Without(BucketAt(before, q), name) # <<>>}
                       \cup {rank}
            /\ LastAt(before, rank, name) => standings = before

\* the call took the team from a bucket it shared, made a bucket at a rank
\* that was absent and put it before a bucket of greater rank
C17_Witness ==
    /\ got.op = "_set_standing_for_team"
    /\ RankIndex(got.value, got.arg) = 0
    /\ Len(BucketOf(got.value, got.team)) > 1
    /\ \E q \in RanksOf(got.value) : q > got.arg

\* C18: after make_tiebreaker the rank of every bucket is 1 plus the number of
\* teams in the buckets of smaller rank number, as it is at construction.
C18_CompetitionNumbering ==
    pc = "done" =>
        \A i \in 1..Len(standings) :
            standings[i].rank =
                1 + Cardinality({name \in TeamNamesOf(teams) :
                                    RankOf(standings, name) < standings[i].rank})

\* the standings read as a set of pairs: a rank and the set of names at it
RankSets(stand) ==
    {<<stand[i].rank, {stand[i].teams[k] : k \in 1..Len(stand[i].teams)}>> :
        i \in 1..Len(stand)}

\* the standings make_tiebreaker leaves on the League built from the list
FinalStandings(ms) ==
    LET league_teams == GetLeagueFromMatches(ms)
    IN  MakeTiebreaker(league_teams, MakeStandings(league_teams))

\* the lists that hold the matches of ms in another order
Reorderings(ms) ==
    {[i \in 1..Len(ms) |-> ms[p[i]]] : p \in Permutations(1..Len(ms))}

\* C19: the League built from the same matches in any other order ends, after
\* make_tiebreaker, with the same set of teams at every rank.
C19_MatchOrderIrrelevant ==
    FirstCallDone =>
        \A ms \in Reorderings(matches) : RankSets(FinalStandings(ms)) = RankSets(standings)

\* C20: the second-half pass only splits buckets: a team it has moved shares
\* its bucket with teams of its own bucket of the pass's snapshot only, never
\* with a team of another bucket of second_copy.
C20_SecondHalfOnlySplits ==
    (pc \in {"second", "done"} /\ step = "remove") =>
        \A t, s \in TeamNamesOf(teams) :
            (/\ RankOf(standings, t) # RankOf(second_copy, t)
             /\ RankOf(standings, s) = RankOf(standings, t))
                => RankOf(second_copy, s) = RankOf(second_copy, t)

\* the ranks the teams of a table have in the standings, in the table's
\* order; 0 for a team that is in no bucket
RECURSIVE RanksIn(_, _)
RanksIn(stand, league_table) ==
    IF league_table = <<>> THEN <<>>
    ELSE <<RankOf(stand, Head(league_table).name)>> \o RanksIn(stand, Tail(league_table))

\* C21: make_tiebreaker never moves a team out of the ranks of the bucket it
\* was built into: a team built into the bucket of rank r and size k has, in
\* every state of a call and after it in which it is in the standings, a rank
\* from r to r + k - 1; so a team of a better record has the strictly smaller
\* rank number.
C21_StaysWithinBuiltBucket ==
    [](pc \in {"h2h", "second", "done"} =>
        LET table == Table(teams)
            built == StandingsFrom(TeamsByRecords(table), <<>>, 1)
            ranks == RanksIn(standings, table)
        IN  /\ \A i \in 1..Len(built) : \A j \in 1..Len(built[i].teams) :
                   LET rank == RankOf(standings, built[i].teams[j])
                   IN  rank # 0 => /\ rank >= built[i].rank
                                   /\ rank <= built[i].rank + Len(built[i].teams) - 1
            /\ \A i, j \in 1..Len(table) :
                   (/\ ranks[i] # 0
                    /\ ranks[j] # 0
                    /\ Better(table[i].record, table[j].record)) => ranks[i] < ranks[j])

\* make_tiebreaker has returned and has moved a team to the last rank its
\* built bucket covers, while a team of a worse record stands below it
C21_Witness ==
    /\ pc = "done"
    /\ LET built == MakeStandings(teams)
       IN  \E t, s \in TeamNamesOf(teams) :
               /\ RankOf(standings, t) > RankOf(built, t)
               /\ RankOf(standings, t) = RankOf(built, t) + Len(BucketOf(built, t)) - 1
               /\ Better(Record(TeamOf(teams, t)), Record(TeamOf(teams, s)))
               /\ RankOf(standings, s) = RankOf(standings, t) + 1

\* the sums "+= amount" would make: every (team, ranking) of the result
\* counts the amount the result holds for it
CumulateAmounts(cumulated, result) ==
    [team \in (DOMAIN cumulated) \cup (DOMAIN result) |->
        IF team \notin DOMAIN result THEN cumulated[team]
        ELSE LET old == IF team \in DOMAIN cumulated THEN cumulated[team] ELSE <<>>
             IN  [ranking \in (DOMAIN old) \cup (DOMAIN result[team]) |->
                     (IF ranking \in DOMAIN old THEN old[ranking] ELSE 0)
                     + (IF ranking \in DOMAIN result[team] THEN result[team][ranking]
                                                          ELSE 0)]]

\* the result holds every team of the league once: one ranking, counted 1
OneRankEach(result) ==
    /\ DOMAIN result = LeagueNames(finished_matches \o upcomming_matches)
    /\ \A team \in DOMAIN result :
           /\ Cardinality(DOMAIN result[team]) = 1
           /\ \A ranking \in DOMAIN result[team] : result[team][ranking] = 1

\* C22: every result on the queue holds every team of the league once, with
\* one ranking counted 1; so each result the aggregator reads gives the sums
\* that adding the amounts would give, and raises every team's total by 1.
C22_OneCountPerTeam ==
    /\ [](\A q \in 1..Len(queue) : OneRankEach(queue[q]))
    /\ [][cumulated_outcomes' # cumulated_outcomes =>
            /\ cumulated_outcomes' = CumulateAmounts(cumulated_outcomes, Head(queue))
            /\ \A team \in LeagueNames(finished_matches \o upcomming_matches) :
                   TotalOf(cumulated_outcomes', team)
                       = TotalOf(cumulated_outcomes, team) + 1]_vars

\* the aggregator has read two results of a league of four teams, one team
\* at two different rankings, and a result waits on the queue
C22_Witness ==
    /\ agg = "loop"
    /\ queue # <<>>
    /\ Cardinality(DOMAIN cumulated_outcomes) = 4
    /\ \E team \in DOMAIN cumulated_outcomes :
           /\ TotalOf(cumulated_outcomes, team) = 2
           /\ Cardinality(DOMAIN cumulated_outcomes[team]) = 2

\* C23: multiprocess_possibilities terminates.  The aggregator is at
\* queue.get() only with a result on the queue, so the get returns; with every
\* process scheduled, the loop breaks, the workers run every task and
\* pool.join() returns.
C23_Terminates ==
    /\ [](agg = "get" => queue # <<>>)
    /\ <>(agg = "joined")

\* the run of the largest league has returned after the aggregator has read
\* the result of every scenario
C23_Witness ==
    /\ agg = "joined"
    /\ Len(upcomming_matches) = MaxUnplayed
    /\ Len(worker) = NumWorkers
    /\ \A team \in LeagueNames(upcomming_matches) :
           TotalOf(cumulated_outcomes, team) = ScenarioCount

====
